---- MODULE Spec2Model ----
(***************************************************************************)
(* Model of the lights HAL of light/Lights.cpp: the backend table, the     *)
(* priority arbitration of Lights::setLightState, the render handlers and  *)
(* their attribute writes, and Lights::getLights.                          *)
(*                                                                         *)
(* A HwLightState is a record [color, flashMode, flashOnMs, flashOffMs,    *)
(* brightnessMode].  color is the int32_t that holds the AARRGGBB pattern: *)
(* 0xFFFFFFFF is -1 and 0xFF000000 is -16777216.                           *)
(***************************************************************************)
EXTENDS Integers, Sequences, FiniteSets, TLC

(***************************************************************************)
(* Bounds of the model.                                                    *)
(***************************************************************************)
\* number of binder threads that may be inside the service at once
NumThreads == 2
\* number of setLightState calls started in one behaviour
MaxCalls == 2

(***************************************************************************)
(* Program constants.                                                      *)
(***************************************************************************)
LEDS == "/sys/class/leds/"
BUTTON1_LED == LEDS \o "button-backlight1/"
BUTTON_LED == LEDS \o "button-backlight/"
LCD_LED == LEDS \o "lcd-backlight/"
WHITE_LED == LEDS \o "white/"

BLINK == "blink"
BRIGHTNESS == "brightness"
DUTY_PCTS == "duty_pcts"
PAUSE_HI == "pause_hi"
PAUSE_LO == "pause_lo"
RAMP_STEP_MS == "ramp_step_ms"
START_IDX == "start_idx"

MAX_LED_BRIGHTNESS == 255
MAX_LCD_BRIGHTNESS == 4095
RAMP_STEPS == 8
RAMP_STEP_DURATION == 50
BRIGHTNESS_RAMP == <<0, 12, 25, 37, 50, 72, 85, 100>>

\* values of the LightType enumeration the table names
ATTENTION == 5
NOTIFICATIONS == 4
BATTERY == 3
BACKLIGHT == 0
BUTTONS == 2

\* values of the FlashMode enumeration
FLASH_NONE == 0
FLASH_TIMED == 1
FLASH_HARDWARE == 2

(***************************************************************************)
(* Integer arithmetic as the build performs it.  The uint32_t products of  *)
(* the brightness code stay below 2^21 for every colour, so none wraps.    *)
(***************************************************************************)
\* int32_t division by a positive divisor: the quotient is truncated towards
\* zero (\div rounds down)
CDiv(a, b) == IF a >= 0 \/ a % b = 0 THEN a \div b ELSE (a \div b) + 1

\* the ends of int32_t
MaxInt32 == 2147483647
MinInt32 == -2147483647 - 1

\* a - b of two int32_t leaves the range: undefined behaviour
SubOverflows(a, b) ==
    \/ b > 0 /\ a < MinInt32 + b
    \/ b < 0 /\ a > MaxInt32 + b

\* the int32_t a two's-complement subtraction leaves in the register
SubWrap(a, b) ==
    IF b > 0 /\ a < MinInt32 + b THEN ((a + MaxInt32) + 1) + ((MaxInt32 - b) + 1)
    ELSE IF b < 0 /\ a > MaxInt32 + b THEN ((a - MaxInt32) - 1) - ((MaxInt32 + b) + 1)
    ELSE a - b

\* std::to_string of an int: its decimal digits, with a sign when negative
to_string(n) == ToString(n)

(***************************************************************************)
(* Brightness of a colour.                                                 *)
(***************************************************************************)
\* x >> n of an int32_t x (arithmetic shift), and x & (2^n - 1)
Shr(x, p) == x \div p
LowBits(x, p) == x % p

\* a getBrightness that leaves alpha out
getBrightnessNoAlpha(state) ==
    Shr(77 * LowBits(Shr(state.color, 65536), 256)
        + 150 * LowBits(Shr(state.color, 256), 256)
        + 29 * LowBits(state.color, 256), 256)

getBrightness(state) ==
    LET alpha == LowBits(Shr(state.color, 16777216), 256)
        red0 == LowBits(Shr(state.color, 65536), 256)
        green0 == LowBits(Shr(state.color, 256), 256)
        blue0 == LowBits(state.color, 256)
        red == IF alpha # 255 THEN (red0 * alpha) \div 255 ELSE red0
        green == IF alpha # 255 THEN (green0 * alpha) \div 255 ELSE green0
        blue == IF alpha # 255 THEN (blue0 * alpha) \div 255 ELSE blue0
    IN Shr(77 * red + 150 * green + 29 * blue, 256)

\* a scale by 0x100 in place of 0xFF
scaleBrightnessBy256(brightness, maxBrightness) ==
    (brightness * maxBrightness) \div 256

scaleBrightness(brightness, maxBrightness) ==
    (brightness * maxBrightness) \div 255

getScaledBrightness(state, maxBrightness) ==
    scaleBrightness(getBrightness(state), maxBrightness)

isLit(state) == LowBits(state.color, 16777216) # 0

(***************************************************************************)
(* The render handlers.  A handler invocation is the sequence of the       *)
(* set(path, value) calls it makes, each <<path, value>> with the value as *)
(* the string handed to the file.                                          *)
(***************************************************************************)
setInt(path, value) == <<path, to_string(value)>>

\* a handleBacklight that scales to the range of the other LEDs
handleBacklightByteRange(state) ==
    LET brightness == getScaledBrightness(state, MAX_LED_BRIGHTNESS)
    IN << setInt(LCD_LED \o BRIGHTNESS, brightness) >>

handleBacklight(state) ==
    LET brightness == getScaledBrightness(state, MAX_LCD_BRIGHTNESS)
    IN << setInt(LCD_LED \o BRIGHTNESS, brightness) >>

handleButtons(state) ==
    LET brightness == getScaledBrightness(state, MAX_LED_BRIGHTNESS)
    IN << setInt(BUTTON_LED \o BRIGHTNESS, brightness),
          setInt(BUTTON1_LED \o BRIGHTNESS, brightness) >>

\* What the build makes of the overflowing subtraction in handleNotification:
\* "wrap" computes it in two's complement and tests the sign of the result,
\* "fold" compiles (flashOnMs - 800) < 0 as flashOnMs < 800.
VARIABLE build
Builds == {"wrap", "fold"}

\* pauseHi < 0, where pauseHi is a - b
DifferenceIsNegative(a, b) ==
    IF SubOverflows(a, b) THEN (IF build = "fold" THEN a < b ELSE SubWrap(a, b) < 0)
    ELSE a - b < 0

\* a getScaledRamp whose pad starts as ","
RECURSIVE RampFromPadFirst(_, _)
RampFromPadFirst(i, brightness) ==
    IF i > Len(BRIGHTNESS_RAMP) THEN ""
    ELSE "," \o to_string((BRIGHTNESS_RAMP[i] * brightness) \div 255)
         \o RampFromPadFirst(i + 1, brightness)

RECURSIVE RampFrom(_, _)
RampFrom(i, brightness) ==
    IF i > Len(BRIGHTNESS_RAMP) THEN ""
    ELSE (IF i = 1 THEN "" ELSE ",")
         \o to_string((BRIGHTNESS_RAMP[i] * brightness) \div 255)
         \o RampFrom(i + 1, brightness)

getScaledRamp(brightness) == RampFrom(1, brightness)

NotificationWrites(state) ==
    LET whiteBrightness == getScaledBrightness(state, MAX_LED_BRIGHTNESS)
        pauseHi0 == SubWrap(state.flashOnMs, RAMP_STEP_DURATION * RAMP_STEPS * 2)
        tooShort == DifferenceIsNegative(state.flashOnMs,
                                         RAMP_STEP_DURATION * RAMP_STEPS * 2)
        pauseLo == state.flashOffMs
        stepDuration == IF tooShort
                        THEN CDiv(state.flashOnMs, RAMP_STEPS * 2)
                        ELSE RAMP_STEP_DURATION
        pauseHi == IF tooShort THEN 0 ELSE pauseHi0
    IN << setInt(WHITE_LED \o BLINK, 0) >> \o
       (IF state.flashMode = FLASH_TIMED
        THEN << setInt(WHITE_LED \o START_IDX, 0 * RAMP_STEPS),
                <<WHITE_LED \o DUTY_PCTS, getScaledRamp(whiteBrightness)>>,
                setInt(WHITE_LED \o PAUSE_LO, pauseLo),
                setInt(WHITE_LED \o PAUSE_HI, pauseHi),
                setInt(WHITE_LED \o RAMP_STEP_MS, stepDuration),
                setInt(WHITE_LED \o BLINK, 1) >>
        ELSE << setInt(WHITE_LED \o BRIGHTNESS, whiteBrightness) >>)

\* a handleNotification that enables blinking before it writes the program
handleNotificationArmsFirst(state) ==
    LET w == NotificationWrites(state)
    IN IF Len(w) = 7 THEN << w[1], w[7], w[2], w[3], w[4], w[5], w[6] >> ELSE w

\* a handleNotification that takes every flash mode but NONE as TIMED
handleNotificationAnyFlash(state) ==
    NotificationWrites([state EXCEPT !.flashMode =
                           IF @ # FLASH_NONE THEN FLASH_TIMED ELSE @])

\* a handleNotification that keeps the default step duration
handleNotificationFixedStep(state) ==
    LET w == NotificationWrites(state)
    IN IF Len(w) = 7
       THEN [w EXCEPT ![6] = setInt(WHITE_LED \o RAMP_STEP_MS, RAMP_STEP_DURATION)]
       ELSE w

\* a handleNotification that disables blinking only on its TIMED branch
handleNotificationKeepsBlink(state) ==
    LET w == NotificationWrites(state)
    IN IF Len(w) = 2 THEN Tail(w) ELSE w

handleNotification(state) == NotificationWrites(state)

\* a call through a LightStateHandler pointer
Invoke(fn, state) ==
    CASE fn = "handleNotification" -> handleNotification(state)
      [] fn = "handleBacklight" -> handleBacklight(state)
      [] fn = "handleButtons" -> handleButtons(state)

(***************************************************************************)
(* The service.                                                            *)
(***************************************************************************)
VARIABLES
    backends,     \* the table: a sequence of [type, handler, state]
    globalLock,   \* the thread that holds the mutex, or NoThread
    hw,           \* content of each attribute file, "" while never written
    pc,           \* per thread: where it is inside the service
    id,           \* per thread: setLightState's id argument
    argState,     \* per thread: setLightState's state argument
    handler,      \* per thread: the local handler
    handled,      \* per thread: the local handled
    todo,         \* per thread: set() calls of the running handler still to make
    call,         \* the setLightState call that last acquired the mutex
    trace,        \* the set() calls made since the mutex was last acquired
    lightsIn,     \* the list handed to the last getLights
    lights,       \* that list when getLights returned
    ncalls,       \* setLightState calls started
    missing,      \* the attribute files that cannot be opened
    latest,       \* per class: the state of the last call for it that returned ok
    white,        \* the last call that reached handleNotification: the state
                  \*   it passed and the state that was rendered
    colorA,       \* brightness calculator: a colour,
    colorB,       \*   a second colour derived from it,
    maxB,         \*   the target range,
    outA,         \*   getScaledBrightness of the two colours
    outB,
    mstep,        \*   what the calculator did last
    rState,       \* renderer: a state handed to handleNotification,
    rOut,         \*   the set() calls it made,
    rBright,      \*   a brightness handed to getScaledRamp,
    rRamp,        \*   the string it returned,
    rstep         \*   what the renderer did last

svars == <<backends, globalLock, hw, pc, id, argState, handler, handled, todo,
           call, trace, lightsIn, lights, ncalls, missing, latest, white>>
mvars == <<colorA, colorB, maxB, outA, outB, mstep>>
rvars == <<rState, rOut, rBright, rRamp, rstep, build>>
vars == <<svars, mvars, rvars>>

Threads == 1 .. NumThreads
NoThread == 0
nullptr == "nullptr"

\* the state of a LightBackend after construction: a default HwLightState
\* whose color the constructor sets to 0xff000000
DefaultState ==
    [color |-> -16777216, flashMode |-> FLASH_NONE, flashOnMs |-> 0, flashOffMs |-> 0,
     brightnessMode |-> 0]

\* the table as constructed; table order is the order of importance
InitialBackends ==
    << [type |-> ATTENTION, handler |-> "handleNotification", state |-> DefaultState],
       [type |-> NOTIFICATIONS, handler |-> "handleNotification", state |-> DefaultState],
       [type |-> BATTERY, handler |-> "handleNotification", state |-> DefaultState],
       [type |-> BACKLIGHT, handler |-> "handleBacklight", state |-> DefaultState],
       [type |-> BUTTONS, handler |-> "handleButtons", state |-> DefaultState] >>

\* the attribute files the handlers write
Paths ==
    { WHITE_LED \o a : a \in {BLINK, BRIGHTNESS, DUTY_PCTS, PAUSE_HI, PAUSE_LO,
                              RAMP_STEP_MS, START_IDX} }
    \cup { LCD_LED \o BRIGHTNESS, BUTTON_LED \o BRIGHTNESS, BUTTON1_LED \o BRIGHTNESS }

\* the devices the service may run on: every file writable; a device where
\* some files of each LED are missing; its complement; no LED files at all
MissingInputs ==
    { {},
      {WHITE_LED \o BLINK, WHITE_LED \o DUTY_PCTS, LCD_LED \o BRIGHTNESS,
       BUTTON_LED \o BRIGHTNESS},
      Paths \ {WHITE_LED \o BLINK, WHITE_LED \o DUTY_PCTS, LCD_LED \o BRIGHTNESS,
               BUTTON_LED \o BRIGHTNESS},
      Paths }

\* states callers pass: off, off with flash fields left over, solid white,
\* a dimmed red blinking 100 ms on, a green blinking 1000 ms on
StateOff ==
    [color |-> 0, flashMode |-> FLASH_NONE, flashOnMs |-> 0, flashOffMs |-> 0,
     brightnessMode |-> 0]
StateOffTimed ==
    [color |-> -16777216, flashMode |-> FLASH_TIMED, flashOnMs |-> 1000,
     flashOffMs |-> 500, brightnessMode |-> 0]
StateWhite ==
    [color |-> -1, flashMode |-> FLASH_NONE, flashOnMs |-> 0,
     flashOffMs |-> 0, brightnessMode |-> 0]
StateRedBlink ==
    [color |-> -2130771968, flashMode |-> FLASH_TIMED, flashOnMs |-> 100,
     flashOffMs |-> 2000, brightnessMode |-> 0]

\* the calls made: <<id, state>>.  KEYBOARD (1) is a LightType the table
\* does not name; 261 is no LightType, and 256 + ATTENTION.
CallInputs ==
    ({ATTENTION, NOTIFICATIONS, BATTERY}
        \X {StateOff, StateOffTimed, StateWhite, StateRedBlink})
    \cup ({BACKLIGHT, BUTTONS} \X {StateOff, StateWhite})
    \cup ({1, 261} \X {StateWhite})

(***************************************************************************)
(* Lights::setLightState, statement by statement.                          *)
(***************************************************************************)
\* a first loop that stores the new colour and keeps the other fields
UpdateBackendsColorOnly(bk, type, state) ==
    [i \in 1 .. Len(bk) |->
        IF bk[i].type = type THEN [bk[i] EXCEPT !.state.color = state.color] ELSE bk[i]]

\* LightType type = static_cast<LightType>(id): LightType is the AIDL enum
\* android.hardware.light.LightType, backed by a byte, so the int is
\* narrowed to an int8_t
static_cast_LightType(i) == ((i + 128) % 256) - 128

\* the first loop: store the state in every entry of the type
UpdateBackends(bk, type, state) ==
    [i \in 1 .. Len(bk) |->
        IF bk[i].type = type THEN [bk[i] EXCEPT !.state = state] ELSE bk[i]]

\* the first loop: handler of the last entry of the type, else unchanged
RECURSIVE FindHandler(_, _, _, _)
FindHandler(bk, type, i, fn) ==
    IF i > Len(bk) THEN fn
    ELSE FindHandler(bk, type, i + 1, IF bk[i].type = type THEN bk[i].handler ELSE fn)

\* a second loop that runs over the table from its end
RECURSIVE ScanFromEnd(_, _, _)
ScanFromEnd(bk, fn, i) ==
    IF i > Len(bk) THEN 0
    ELSE IF fn = bk[Len(bk) + 1 - i].handler /\ isLit(bk[Len(bk) + 1 - i].state)
         THEN Len(bk) + 1 - i
    ELSE ScanFromEnd(bk, fn, i + 1)

\* the second loop: index of the entry the handler is invoked on, 0 if none
RECURSIVE ScanFrom(_, _, _)
ScanFrom(bk, fn, i) ==
    IF i > Len(bk) THEN 0
    ELSE IF fn = bk[i].handler /\ isLit(bk[i].state) THEN i
    ELSE ScanFrom(bk, fn, i + 1)

\* a second loop that never sets handled
HandledNeverSet(bk, fn) == FALSE

\* handled after the second loop
HandledAfterScan(bk, fn) == ScanFrom(bk, fn, 1) # 0

\* an if (!handled) that renders a default-constructed state
InvocationsDefaultOff(bk, fn, state) ==
    (IF ScanFrom(bk, fn, 1) # 0 THEN << bk[ScanFrom(bk, fn, 1)].state >> ELSE << >>)
    \o (IF ~HandledAfterScan(bk, fn)
        THEN << [color |-> 0, flashMode |-> 0, flashOnMs |-> 0, flashOffMs |-> 0,
                 brightnessMode |-> 0] >>
        ELSE << >>)

\* the states the handler is invoked with by the second loop and by the
\* if (!handled) that follows it
Invocations(bk, fn, state) ==
    (IF ScanFrom(bk, fn, 1) # 0 THEN << bk[ScanFrom(bk, fn, 1)].state >> ELSE << >>)
    \o (IF ~HandledAfterScan(bk, fn) THEN << state >> ELSE << >>)

RECURSIVE WritesOf(_, _)
WritesOf(fn, states) ==
    IF states = << >> THEN << >>
    ELSE Invoke(fn, Head(states)) \o WritesOf(fn, Tail(states))

\* a setLightState that takes no mutex
CanLockNoMutex(lock) == TRUE

\* std::lock_guard's constructor returns once the mutex is free
CanLock(lock) == lock = NoThread

\* file.is_open() of an ofstream constructed on the path
IsOpen(absent, path) == path \notin absent

\* set(path, value): the file receives the value unless it cannot be opened
SetFile(files, path, value, ok) ==
    IF ok THEN [files EXCEPT ![path] = value] ELSE files

\* set() returns to the handler whether or not the file opened: the set()
\* calls the handler has left after one of them
RemainingAbortOnFailure(rest, ok) == IF ok THEN Tail(rest) ELSE << >>

Remaining(rest, ok) == Tail(rest)

\* a getLights that counts ordinals from 1
RECURSIVE PushLightsFromOne(_, _, _)
PushLightsFromOne(bk, i, out) ==
    IF i >= Len(bk) THEN out
    ELSE PushLightsFromOne(bk, i + 1,
             Append(out, [id |-> bk[i + 1].type, type |-> bk[i + 1].type,
                          ordinal |-> i + 1]))

\* the list getLights leaves in *lights
RECURSIVE PushLights(_, _, _)
PushLights(bk, i, out) ==
    IF i >= Len(bk) THEN out
    ELSE PushLights(bk, i + 1,
             Append(out, [id |-> bk[i + 1].type, type |-> bk[i + 1].type, ordinal |-> i]))

NoId == -1
NoCall ==
    [thread |-> NoThread, id |-> NoId, type |-> NoId, state |-> DefaultState,
     before |-> InitialBackends, renders |-> << >>, status |-> "none"]

\* a lock_guard that is destroyed only by the return at the end
UnlockedOnOkOnly(lock, status) == IF status = "ok" THEN NoThread ELSE lock

\* the mutex once the lock_guard is destroyed by a return
Unlocked(lock, status) == NoThread

\* before handleNotification has ever run
NoRender == [done |-> FALSE, arg |-> DefaultState, rendered |-> DefaultState]

SInit0 ==
    /\ backends = InitialBackends
    /\ globalLock = NoThread
    /\ hw = [p \in Paths |-> ""]
    /\ pc = [t \in Threads |-> "idle"]
    /\ id = [t \in Threads |-> NoId]
    /\ argState = [t \in Threads |-> DefaultState]
    /\ handler = [t \in Threads |-> nullptr]
    /\ handled = [t \in Threads |-> FALSE]
    /\ todo = [t \in Threads |-> << >>]
    /\ call = NoCall
    /\ trace = << >>
    /\ lightsIn = << >>
    /\ lights = << >>
    /\ ncalls = 0
    /\ latest = [c \in {InitialBackends[i].type : i \in 1 .. Len(InitialBackends)}
                    |-> DefaultState]
    /\ white = NoRender

MIdle ==
    /\ colorA = 0 /\ colorB = 0 /\ maxB = MAX_LED_BRIGHTNESS
    /\ outA = 0 /\ outB = 0 /\ mstep = "init"

\* the renderer at rest.  No state a caller of the service passes below
\* reaches the overflow, so there the two builds do the same.
RIdle ==
    /\ rState = DefaultState /\ rOut = << >> /\ rBright = 0 /\ rRamp = ""
    /\ rstep = "init" /\ build = "wrap"

Init == SInit0 /\ missing \in MissingInputs /\ MIdle /\ RIdle

\* the locals of a thread that is not inside setLightState
Leave(t) ==
    /\ pc' = [pc EXCEPT ![t] = "idle"]
    /\ id' = [id EXCEPT ![t] = NoId]
    /\ argState' = [argState EXCEPT ![t] = DefaultState]
    /\ handler' = [handler EXCEPT ![t] = nullptr]
    /\ handled' = [handled EXCEPT ![t] = FALSE]
    /\ todo' = [todo EXCEPT ![t] = << >>]

\* a binder thread enters setLightState and reaches the lock_guard
Call(t) ==
    /\ pc[t] = "idle"
    /\ ncalls < MaxCalls
    /\ pc' = [pc EXCEPT ![t] = "lock"]
    /\ ncalls' = ncalls + 1
    /\ UNCHANGED <<backends, globalLock, hw, id, argState, handler, handled, todo,
                   call, trace, lightsIn, lights, missing,
                   latest, white, mvars, rvars>>

\* the lock_guard is constructed.  The arguments of the call are local to
\* the thread until here, so they are drawn here.
Acquire(t, i, s) ==
    /\ pc[t] = "lock"
    /\ CanLock(globalLock)
    /\ globalLock' = t
    /\ id' = [id EXCEPT ![t] = i]
    /\ argState' = [argState EXCEPT ![t] = s]
    /\ handler' = [handler EXCEPT ![t] = nullptr]
    /\ handled' = [handled EXCEPT ![t] = FALSE]
    /\ pc' = [pc EXCEPT ![t] = "update"]
    /\ call' = [thread |-> t, id |-> i, type |-> static_cast_LightType(i),
                state |-> s, before |-> backends,
                renders |-> << >>, status |-> "none"]
    /\ trace' = << >>
    /\ UNCHANGED <<backends, hw, todo, lightsIn, lights, ncalls, missing,
                   latest, white, mvars, rvars>>

\* the loop that updates the cached state
Update(t) ==
    /\ pc[t] = "update"
    /\ LET type == static_cast_LightType(id[t])
       IN /\ backends' = UpdateBackends(backends, type, argState[t])
          /\ handler' = [handler EXCEPT ![t] = FindHandler(backends, type, 1, handler[t])]
    /\ pc' = [pc EXCEPT ![t] = "check"]
    /\ UNCHANGED <<globalLock, hw, id, argState, handled, todo, call, trace,
                   lightsIn, lights, ncalls, missing,
                   latest, white, mvars, rvars>>

\* if (!handler) return EX_UNSUPPORTED_OPERATION
ReturnUnsupported(t) ==
    /\ pc[t] = "check"
    /\ handler[t] = nullptr
    /\ globalLock' = Unlocked(globalLock, "EX_UNSUPPORTED_OPERATION")
    /\ call' = [call EXCEPT !.status = "EX_UNSUPPORTED_OPERATION"]
    /\ Leave(t)
    /\ UNCHANGED <<backends, hw, trace, lightsIn, lights, ncalls, missing,
                   latest, white, mvars, rvars>>

\* the priority loop and the if (!handled) after it, up to the handler's
\* first set()
Scan(t) ==
    /\ pc[t] = "check"
    /\ handler[t] # nullptr
    /\ LET inv == Invocations(backends, handler[t], argState[t])
       IN /\ todo' = [todo EXCEPT ![t] = WritesOf(handler[t], inv)]
          /\ call' = [call EXCEPT !.renders = inv]
          /\ white' = IF handler[t] = "handleNotification"
                      THEN [done |-> TRUE, arg |-> argState[t], rendered |-> inv[Len(inv)]]
                      ELSE white
    /\ handled' = [handled EXCEPT ![t] = HandledAfterScan(backends, handler[t])]
    /\ pc' = [pc EXCEPT ![t] = "render"]
    /\ UNCHANGED <<backends, globalLock, hw, id, argState, handler, trace,
                   lightsIn, lights, ncalls, missing,
                   latest, mvars, rvars>>

\* one set(path, value) of the running handler
Write(t) ==
    /\ pc[t] = "render"
    /\ todo[t] # << >>
    /\ LET w == Head(todo[t])
           ok == IsOpen(missing, w[1])
       IN /\ hw' = SetFile(hw, w[1], w[2], ok)
          /\ trace' = Append(trace, [thread |-> t, path |-> w[1], value |-> w[2], ok |-> ok])
    /\ todo' = [todo EXCEPT ![t] = Remaining(todo[t], IsOpen(missing, Head(todo[t])[1]))]
    /\ UNCHANGED <<backends, globalLock, pc, id, argState, handler, handled, call,
                   lightsIn, lights, ncalls, missing,
                   latest, white, mvars, rvars>>

\* return ok(); the lock_guard releases the mutex
ReturnOk(t) ==
    /\ pc[t] = "render"
    /\ todo[t] = << >>
    /\ globalLock' = Unlocked(globalLock, "ok")
    /\ call' = [call EXCEPT !.status = "ok"]
    /\ latest' = [latest EXCEPT ![static_cast_LightType(id[t])] = argState[t]]
    /\ Leave(t)
    /\ UNCHANGED <<backends, hw, trace, lightsIn, lights, ncalls, missing,
                   white, mvars, rvars>>

\* one call for each way through setLightState: a class the table does not
\* name, a steady and a blinking white LED, the backlight, the buttons
LiveInputs ==
    { <<1, StateWhite>>, <<ATTENTION, StateWhite>>, <<NOTIFICATIONS, StateRedBlink>>,
      <<BACKLIGHT, StateWhite>>, <<BUTTONS, StateOff>> }

\* every step of setLightState after its entry
Proceed(t) ==
    \/ \E c \in LiveInputs : Acquire(t, c[1], c[2])
    \/ Update(t)
    \/ ReturnUnsupported(t)
    \/ Scan(t)
    \/ Write(t)
    \/ ReturnOk(t)

\* lists callers hand to getLights: an empty one, and one that has an entry
LightsInputs == { << >>, << [id |-> 1, type |-> 1, ordinal |-> 9] >> }

\* a getLights that takes the mutex for its loop
GetLightsLocked(t, out) ==
    /\ pc[t] = "idle"
    /\ CanLock(globalLock)
    /\ lightsIn' = out
    /\ lights' = PushLights(backends, 0, out)
    /\ UNCHANGED <<backends, globalLock, hw, pc, id, argState, handler, handled,
                   todo, call, trace, ncalls, missing, latest, white, mvars, rvars>>

\* Lights::getLights
GetLights(t, out) ==
    /\ pc[t] = "idle"
    /\ lightsIn' = out
    /\ lights' = PushLights(backends, 0, out)
    /\ UNCHANGED <<backends, globalLock, hw, pc, id, argState, handler, handled,
                   todo, call, trace, ncalls, missing,
                   latest, white, mvars, rvars>>

Next ==
    \E t \in Threads :
        \/ Call(t)
        \/ \E c \in CallInputs : Acquire(t, c[1], c[2])
        \/ Update(t)
        \/ ReturnUnsupported(t)
        \/ Scan(t)
        \/ Write(t)
        \/ ReturnOk(t)
        \/ \E out \in LightsInputs : GetLights(t, out)

Spec == Init /\ [][Next]_vars

\* a binder thread enters setLightState, as often as callers like: ncalls
\* counts the calls started up to MaxCalls and stays there
CallAgain(t) ==
    /\ pc[t] = "idle"
    /\ pc' = [pc EXCEPT ![t] = "lock"]
    /\ ncalls' = IF ncalls < MaxCalls THEN ncalls + 1 ELSE ncalls
    /\ UNCHANGED <<backends, globalLock, hw, id, argState, handler, handled, todo,
                   call, trace, lightsIn, lights, missing, latest, white, mvars, rvars>>

NextLive ==
    \E t \in Threads :
        \/ CallAgain(t)
        \/ Proceed(t)
        \/ \E out \in LightsInputs : GetLights(t, out)

\* The service with its threads scheduled: a thread inside setLightState
\* that can take a step eventually takes one.  Nothing obliges a caller to
\* start a call or to call getLights, and nothing stops one: calls go on for
\* ever if callers like.  std::mutex does not say which waiting thread gets
\* the mutex, so the fairness is weak.  Whether a call ends depends on the
\* way it takes and not on the values it stores, so the calls are LiveInputs.
SpecLive == Init /\ [][NextLive]_vars /\ \A t \in Threads : WF_vars(Proceed(t))

(***************************************************************************)
(* The brightness calculator on its own: getScaledBrightness applied to a  *)
(* colour and to the colour with one component raised, or with its alpha   *)
(* halved.                                                                 *)
(***************************************************************************)
\* component values the colours are built from
Levels == {0, 1, 2, 127, 128, 254, 255}
Ranges == {MAX_LED_BRIGHTNESS, MAX_LCD_BRIGHTNESS}

\* the int32_t whose bits are AARRGGBB
PackARGB(a, r, g, b) ==
    (IF a >= 128 THEN a - 256 ELSE a) * 16777216 + r * 65536 + g * 256 + b

AlphaOf(c) == LowBits(Shr(c, 16777216), 256)
RedOf(c) == LowBits(Shr(c, 65536), 256)
GreenOf(c) == LowBits(Shr(c, 256), 256)
BlueOf(c) == LowBits(c, 256)

WithComponent(c, k, v) ==
    PackARGB(IF k = "alpha" THEN v ELSE AlphaOf(c),
             IF k = "red" THEN v ELSE RedOf(c),
             IF k = "green" THEN v ELSE GreenOf(c),
             IF k = "blue" THEN v ELSE BlueOf(c))

ComponentOf(c, k) ==
    CASE k = "alpha" -> AlphaOf(c) [] k = "red" -> RedOf(c)
      [] k = "green" -> GreenOf(c) [] k = "blue" -> BlueOf(c)

StateOfColor(c) == [DefaultState EXCEPT !.color = c]

MathInit ==
    /\ SInit0
    /\ missing = {}
    /\ RIdle
    /\ \E a \in Levels, r \in Levels, g \in Levels, b \in Levels :
          colorA = PackARGB(a, r, g, b)
    /\ maxB \in Ranges
    /\ colorB = colorA
    /\ outA = 0
    /\ outB = 0
    /\ mstep = "init"

\* both colours through getScaledBrightness
Evaluate(cB, what) ==
    /\ mstep = "init"
    /\ colorB' = cB
    /\ outA' = getScaledBrightness(StateOfColor(colorA), maxB)
    /\ outB' = getScaledBrightness(StateOfColor(cB), maxB)
    /\ mstep' = what
    /\ UNCHANGED <<colorA, maxB, svars, rvars>>

\* colorB is colorA with component k raised to v
Raise(k, v) ==
    /\ v > ComponentOf(colorA, k)
    /\ Evaluate(WithComponent(colorA, k, v), k)

\* colorB is colorA with its alpha halved
Halve ==
    /\ AlphaOf(colorA) \in 0 .. 255
    /\ Evaluate(WithComponent(colorA, "alpha", AlphaOf(colorA) \div 2), "halve")

MathNext ==
    \/ \E k \in {"alpha", "red", "green", "blue"}, v \in Levels : Raise(k, v)
    \/ Halve

SpecMath == MathInit /\ [][MathNext]_vars

(***************************************************************************)
(* The notification renderer on its own: handleNotification applied to a   *)
(* state, getScaledRamp applied to a brightness.                           *)
(***************************************************************************)
ColorInputs == {0, 255, -1, -2130771968}
FlashModeInputs == {FLASH_NONE, FLASH_TIMED, FLASH_HARDWARE}
FlashOnInputs ==
    {MinInt32, MinInt32 + 799, MinInt32 + 800, -17, -16, -1, 0, 1, 15, 16, 100,
     799, 800, 801, 1000, MaxInt32}
FlashOffInputs == {-1, 0, 500, MaxInt32}
BrightnessInputs == 0 .. MAX_LED_BRIGHTNESS

RenderInit ==
    /\ SInit0
    /\ missing = {}
    /\ MIdle
    /\ rOut = << >>
    /\ rRamp = ""
    /\ build \in Builds
    /\ \/ /\ rstep = "state"
          /\ rBright = 0
          /\ \E c \in ColorInputs, m \in FlashModeInputs, on \in FlashOnInputs,
                off \in FlashOffInputs :
                rState = [color |-> c, flashMode |-> m, flashOnMs |-> on,
                          flashOffMs |-> off, brightnessMode |-> 0]
       \/ /\ rstep = "brightness"
          /\ rBright \in BrightnessInputs
          /\ rState = DefaultState

\* handleNotification(rState)
Render ==
    /\ rstep = "state"
    /\ rOut' = handleNotification(rState)
    /\ rstep' = "rendered"
    /\ UNCHANGED <<rState, rBright, rRamp, build, svars, mvars>>

\* getScaledRamp(rBright)
Ramp ==
    /\ rstep = "brightness"
    /\ rRamp' = getScaledRamp(rBright)
    /\ rstep' = "ramped"
    /\ UNCHANGED <<rState, rBright, rOut, build, svars, mvars>>

RenderNext == Render \/ Ramp

SpecRender == RenderInit /\ [][RenderNext]_vars

(***************************************************************************)
(* Vocabulary of the properties.                                           *)
(***************************************************************************)
\* the classes in the order of importance, and the LED each is shown on
PriorityOrder == <<ATTENTION, NOTIFICATIONS, BATTERY, BACKLIGHT, BUTTONS>>
Supported == {PriorityOrder[i] : i \in 1 .. Len(PriorityOrder)}
GroupOf(type) ==
    CASE type \in {ATTENTION, NOTIFICATIONS, BATTERY} -> "handleNotification"
      [] type = BACKLIGHT -> "handleBacklight"
      [] type = BUTTONS -> "handleButtons"

\* the stored state of a class, and whether a state is lit
StoredIn(bk, type) == bk[CHOOSE i \in 1 .. Len(bk) : bk[i].type = type].state
Lit(state) == state.color % 16777216 # 0

\* the classes of a group that are lit in the table, by position in the order
LitPositions(bk, type) ==
    {i \in 1 .. Len(PriorityOrder) :
        /\ GroupOf(PriorityOrder[i]) = GroupOf(type)
        /\ Lit(StoredIn(bk, PriorityOrder[i]))}
MinOf(S) == CHOOSE i \in S : \A j \in S : i <= j

\* the set() calls of the trace as <<path, value>>, failed or not
Attempts(tr) == [i \in 1 .. Len(tr) |-> <<tr[i].path, tr[i].value>>]

\* the most recent call has invoked its handler / has returned
HasRendered ==
    /\ call.thread # NoThread
    /\ \/ call.status = "ok"
       \/ call.status = "none" /\ pc[call.thread] = "render"
ReturnedOk == call.thread # NoThread /\ call.status = "ok"

\* C1: once a call for class c has invoked the handler and some class of
\* c's group is lit in the table, the handler was invoked with the stored
\* state of the first lit class of the group in priority order
Thm_C1 ==
    (HasRendered /\ call.type \in Supported /\ LitPositions(backends, call.type) # {})
    => call.renders =
         << StoredIn(backends, PriorityOrder[MinOf(LitPositions(backends, call.type))]) >>

\* ATTENTION was set unlit while NOTIFICATIONS is lit, and the call rendered
\* the state stored for NOTIFICATIONS
Wit_C1 ==
    /\ ReturnedOk
    /\ call.type = ATTENTION
    /\ ~Lit(call.state)
    /\ Lit(StoredIn(backends, NOTIFICATIONS))
    /\ call.renders = << StoredIn(backends, NOTIFICATIONS) >>
    /\ Len(trace) > 0

\* C2: a call that leaves no class of its group lit invokes the handler
\* with the state it was passed, that state is unlit, its set() calls are
\* those of the handler on that state alone, and it returns ok
Thm_C2 ==
    (call.thread # NoThread /\ call.status # "none" /\ call.type \in Supported
       /\ LitPositions(backends, call.type) = {})
    => /\ call.status = "ok"
       /\ call.renders = << call.state >>
       /\ ~Lit(call.state)
       /\ Attempts(trace) = Invoke(GroupOf(call.type), call.state)

\* the same unlit state with flash fields was set a second time
Wit_C2 ==
    /\ ReturnedOk
    /\ call.type = NOTIFICATIONS
    /\ call.state = StateOffTimed
    /\ call.before = backends
    /\ LitPositions(backends, call.type) = {}
    /\ Len(trace) = 7

\* C3: a call for ATTENTION, NOTIFICATIONS or BATTERY that leaves none of
\* them lit writes brightness 0 to the white LED and its last write to blink
\* is 0, whatever flash fields the unlit state carries
Orig_C3 ==
    (ReturnedOk /\ call.type \in {ATTENTION, NOTIFICATIONS, BATTERY}
       /\ LitPositions(backends, call.type) = {})
    => /\ \E i \in 1 .. Len(trace) :
            trace[i].path = WHITE_LED \o BRIGHTNESS /\ trace[i].value = "0"
       /\ \E i \in 1 .. Len(trace) :
            /\ trace[i].path = WHITE_LED \o BLINK
            /\ trace[i].value = "0"
            /\ \A j \in (i + 1) .. Len(trace) : trace[j].path # WHITE_LED \o BLINK

\* what C4 says of a call it applies to
SaysC4 ==
    /\ call.status \in {"none", "EX_UNSUPPORTED_OPERATION"}
    /\ backends = call.before
    /\ trace = << >>
    /\ call.renders = << >>

\* C4: a call with an id that is not one of the five classes of the table
\* returns EX_UNSUPPORTED_OPERATION, and at no point of it has a stored
\* state changed or a set() been made
Orig_C4 ==
    (call.thread # NoThread /\ call.id \notin Supported) => SaysC4

\* C4 for the ids the cast does not fold onto a class of the table: the
\* same for every id whose LightType is not in the table
InRange_C4 ==
    (call.thread # NoThread /\ call.type \notin Supported) => SaysC4

\* what getLights returns for an empty list
FiveLights ==
    [i \in 1 .. Len(PriorityOrder) |->
        [id |-> PriorityOrder[i], type |-> PriorityOrder[i], ordinal |-> i - 1]]

\* C5: a getLights step leaves the stored states, the attribute files, the
\* mutex and the set() trace as they were, and for an empty list returns the
\* five classes in priority order with ordinals 0 .. 4
Thm_C5 ==
    [][ (lights' # lights \/ lightsIn' # lightsIn)
        => /\ lightsIn' = << >> => lights' = FiveLights
           /\ backends' = backends
           /\ hw' = hw
           /\ trace' = trace
           /\ globalLock' = globalLock ]_vars

\* getLights returned the five classes after setLightState calls had stored
\* lit states and written attribute files
Wit_C5 ==
    /\ lightsIn = << >>
    /\ lights = FiveLights
    /\ \E i \in 1 .. Len(backends) : Lit(backends[i].state)
    /\ \E p \in Paths : hw[p] # ""

\* C6: a call for a supported class that has returned has returned ok and
\* has invoked the handler exactly once, and every set() of that invocation
\* was made before the return
Thm_C6 ==
    (call.thread # NoThread /\ call.type \in Supported /\ call.status # "none")
    => /\ call.status = "ok"
       /\ Len(call.renders) = 1
       /\ Attempts(trace) = Invoke(GroupOf(call.type), call.renders[1])

\* a call returned ok after rendering a state other than the one passed
Wit_C6 ==
    /\ ReturnedOk
    /\ Len(call.renders) = 1
    /\ call.renders[1] # call.state
    /\ Len(trace) > 0

\* the part of setLightState that runs under the lock_guard
InCritical(t) == pc[t] \in {"update", "check", "render"}

\* C7: a thread between acquiring the mutex and returning holds it and is
\* the only such thread; every set() made since the mutex was last acquired
\* was made by the call that acquired it (so the set() calls of a call are a
\* block, and blocks follow the order of acquisition); and the table a scan
\* reads is the table the call found with only its own update applied
Thm_C7 ==
    /\ \A t \in Threads : InCritical(t) => globalLock = t /\ call.thread = t
    /\ \A t \in Threads, u \in Threads : InCritical(t) /\ InCritical(u) => t = u
    /\ \A i \in 1 .. Len(trace) : trace[i].thread = call.thread
    /\ \A t \in Threads :
          pc[t] \in {"check", "render"}
          => backends = UpdateBackends(call.before, static_cast_LightType(id[t]), argState[t])

\* one thread waits for the mutex while another is in the middle of its
\* set() calls
Wit_C7 ==
    \E t \in Threads, u \in Threads :
        /\ pc[t] = "render" /\ Len(trace) > 0 /\ todo[t] # << >>
        /\ pc[u] = "lock"

\* C8: whichever files cannot be opened, a call for a supported class that
\* has returned has returned ok, has attempted every set() of its handler
\* invocation in the handler's order, each failing exactly when its file is
\* missing, and the table is the one the call found with its update applied
Thm_C8 ==
    (call.thread # NoThread /\ call.type \in Supported /\ call.status # "none")
    => /\ call.status = "ok"
       /\ Attempts(trace) = WritesOf(GroupOf(call.type), call.renders)
       /\ \A i \in 1 .. Len(trace) : trace[i].ok = (trace[i].path \notin missing)
       /\ backends = UpdateBackends(call.before, call.type, call.state)

\* a blink program was rendered in which a set() failed and a later one of
\* the same invocation reached its file
Wit_C8 ==
    /\ ReturnedOk
    /\ Len(trace) = 7
    /\ \E i \in 1 .. Len(trace), j \in 1 .. Len(trace) :
          i < j /\ ~trace[i].ok /\ trace[j].ok
    /\ backends # call.before

\* C9: getScaledBrightness lies in 0 .. maxBrightness, is 0 for 0xFF000000
\* and maxBrightness for 0xFFFFFFFF, and does not decrease when alpha, red,
\* green or blue is raised with the other three components fixed
Thm_C9 ==
    mstep # "init"
    => /\ outA \in 0 .. maxB
       /\ outB \in 0 .. maxB
       /\ colorA = PackARGB(255, 0, 0, 0) => outA = 0
       /\ colorB = PackARGB(255, 255, 255, 255) => outB = maxB
       /\ mstep \in {"alpha", "red", "green", "blue"} => outA <= outB

\* raising alpha from 254 to 255 on white took the result up to the maximum
\* of the 12-bit range
Wit_C9 ==
    /\ mstep = "alpha"
    /\ colorA = PackARGB(254, 255, 255, 255)
    /\ colorB = PackARGB(255, 255, 255, 255)
    /\ maxB = MAX_LCD_BRIGHTNESS
    /\ outA < outB
    /\ outB = MAX_LCD_BRIGHTNESS

\* C10 as stated: the colour with alpha floor(a/2) scales to exactly
\* floor(half) of what the colour with alpha a scales to
Orig_C10 ==
    mstep = "halve" => outB = outA \div 2

\* C10: the colour with alpha floor(a/2) scales to at most floor(half) of
\* what the colour with alpha a scales to
Thm_C10 ==
    mstep = "halve" => outB <= outA \div 2

\* halving the alpha of opaque white fell short of half in the 12-bit range
Wit_C10 ==
    /\ mstep = "halve"
    /\ colorA = PackARGB(255, 255, 255, 255)
    /\ maxB = MAX_LCD_BRIGHTNESS
    /\ outA = 4095
    /\ outB = 2039

(***************************************************************************)
(* Properties of the renderer.                                             *)
(***************************************************************************)
\* the value of the first set() on the attribute of the white LED, "" if none
RECURSIVE ValueAt(_, _)
ValueAt(out, attr) ==
    IF out = << >> THEN ""
    ELSE IF Head(out)[1] = WHITE_LED \o attr THEN Head(out)[2]
    ELSE ValueAt(Tail(out), attr)

\* a / 16 with the quotient truncated, and the decimal form of an int
Sixteenth(a) == IF a >= 0 THEN a \div 16 ELSE IF a % 16 = 0 THEN a \div 16 ELSE (a \div 16) + 1
Decimal(n) == ToString(n)

TimedRendered == rstep = "rendered" /\ rState.flashMode = FLASH_TIMED

\* what C11 says a TIMED render writes to pause_hi, ramp_step_ms, pause_lo
SaysC11 ==
    /\ rState.flashOnMs >= 800
       => /\ ValueAt(rOut, PAUSE_HI) = Decimal(rState.flashOnMs - 800)
          /\ ValueAt(rOut, RAMP_STEP_MS) = Decimal(50)
    /\ rState.flashOnMs < 800
       => /\ ValueAt(rOut, PAUSE_HI) = Decimal(0)
          /\ ValueAt(rOut, RAMP_STEP_MS) = Decimal(Sixteenth(rState.flashOnMs))
    /\ ValueAt(rOut, PAUSE_LO) = Decimal(rState.flashOffMs)
    /\ \E n \in {0, SubWrap(rState.flashOnMs, 800)} :
          n >= 0 /\ ValueAt(rOut, PAUSE_HI) = Decimal(n)

\* C11: a TIMED render writes pause_hi = flashOnMs - 800 and ramp_step_ms =
\* 50 when flashOnMs >= 800, pause_hi = 0 and ramp_step_ms = flashOnMs / 16
\* when flashOnMs < 800, pause_lo = flashOffMs, and never a negative pause_hi
Orig_C11 == TimedRendered => SaysC11

\* C11 away from the overflow: the same for every flashOnMs from which 800
\* can be subtracted in an int32_t
InRange_C11 ==
    (TimedRendered /\ ~SubOverflows(rState.flashOnMs, 800)) => SaysC11

\* the duty percentages C12 names, and those of a brightness
Pcts == <<0, 12, 25, 37, 50, 72, 85, 100>>
DutyOf(b) == [i \in 1 .. 8 |-> (Pcts[i] * b) \div 255]
Joined(d) ==
    Decimal(d[1]) \o "," \o Decimal(d[2]) \o "," \o Decimal(d[3]) \o "," \o Decimal(d[4])
    \o "," \o Decimal(d[5]) \o "," \o Decimal(d[6]) \o "," \o Decimal(d[7]) \o ","
    \o Decimal(d[8])

\* C12: for a brightness b the ramp string is the eight integers
\* floor(pct * b / 255) for pct in 0, 12, 25, 37, 50, 72, 85, 100, in that
\* order and separated by commas; they start at 0, never decrease and lie in
\* 0 .. 100
Thm_C12 ==
    /\ rstep = "ramped"
       => /\ rRamp = Joined(DutyOf(rBright))
          /\ DutyOf(rBright)[1] = 0
          /\ \A i \in 1 .. 7 : DutyOf(rBright)[i] <= DutyOf(rBright)[i + 1]
          /\ \A i \in 1 .. 8 : DutyOf(rBright)[i] \in 0 .. 100
    /\ (rstep = "rendered" /\ rState.flashMode = FLASH_TIMED)
       => /\ getScaledBrightness(rState, 255) \in 0 .. 255
          /\ ValueAt(rOut, DUTY_PCTS) = Joined(DutyOf(getScaledBrightness(rState, 255)))

\* the ramp of brightness 200
Wit_C12 ==
    /\ rstep = "ramped"
    /\ rBright = 200
    /\ rRamp = "0,9,19,29,39,56,66,78"

(***************************************************************************)
(* Properties of the service, continued.                                   *)
(***************************************************************************)
WhiteClasses == {ATTENTION, NOTIFICATIONS, BATTERY}

\* the attributes of a blink program in the order C13 gives
TimedOrder == <<BLINK, START_IDX, DUTY_PCTS, PAUSE_LO, PAUSE_HI, RAMP_STEP_MS, BLINK>>

\* the most recent call renders a TIMED state on the white LED
RendersTimed ==
    /\ call.thread # NoThread
    /\ call.type \in WhiteClasses
    /\ call.renders # << >>
    /\ call.renders[1].flashMode = FLASH_TIMED

\* C13: at every point of a TIMED render the set() calls made so far are
\* blink=0, start_idx, duty_pcts, pause_lo, pause_hi, ramp_step_ms, blink=1,
\* in that order and up to that point; brightness is not among them, and the
\* call returns with all seven made
Thm_C13 ==
    RendersTimed
    => /\ Len(trace) <= 7
       /\ \A i \in 1 .. Len(trace) : trace[i].path = WHITE_LED \o TimedOrder[i]
       /\ Len(trace) >= 1 => trace[1].value = "0"
       /\ Len(trace) = 7 => trace[7].value = "1"
       /\ call.status = "ok" => Len(trace) = 7

\* a TIMED render has written its program and not yet enabled blinking
Wit_C13 ==
    /\ RendersTimed
    /\ call.status = "none"
    /\ Len(trace) = 6
    /\ trace[6].path = WHITE_LED \o RAMP_STEP_MS
    /\ Len(todo[call.thread]) = 1

\* C14: a render of a state whose flash mode is not TIMED makes exactly two
\* set() calls, blink=0 and then brightness=getScaledBrightness(state, 255);
\* no attribute of the blink program is written and blink=1 is not
Thm_C14 ==
    (rstep = "rendered" /\ rState.flashMode # FLASH_TIMED)
    => /\ rOut = << <<WHITE_LED \o BLINK, "0">>,
                    <<WHITE_LED \o BRIGHTNESS,
                      Decimal(getScaledBrightness(rState, MAX_LED_BRIGHTNESS))>> >>
       /\ \A i \in 1 .. Len(rOut) :
             /\ rOut[i][1] \notin {WHITE_LED \o a :
                                     a \in {START_IDX, DUTY_PCTS, PAUSE_LO, PAUSE_HI,
                                            RAMP_STEP_MS}}
             /\ rOut[i] # <<WHITE_LED \o BLINK, "1">>

\* white with flash mode HARDWARE and flash times set was rendered as a
\* steady 255
Wit_C14 ==
    /\ rstep = "rendered"
    /\ rState.flashMode = FLASH_HARDWARE
    /\ rState.color = -1
    /\ rState.flashOnMs = 1000
    /\ rOut = << <<WHITE_LED \o BLINK, "0">>, <<WHITE_LED \o BRIGHTNESS, "255">> >>

\* a + b leaves the range of an int32_t
AddOverflows(a, b) ==
    \/ b > 0 /\ a > MaxInt32 - b
    \/ b < 0 /\ a < MinInt32 - b

\* the remainder of a / 16 as C computes it: it has the sign of a
Rem16(a) ==
    IF a >= 0 THEN a % 16 ELSE IF a % 16 = 0 THEN 0 ELSE (a % 16) - 16

\* ramp_step_ms * 8 * 2 + pause_hi, as integers, is exactly total
RampFills(step, hi, total) ==
    ~AddOverflows(step * 16, hi) /\ step * 16 + hi = total

\* the integers whose decimal forms the TIMED render of rState can have
\* written to ramp_step_ms and to pause_hi
StepValues ==
    {50} \cup {Sixteenth(rState.flashOnMs) + d : d \in {-1, 0, 1}}
HiValues == {0, SubWrap(rState.flashOnMs, 800)}

\* C15 as stated: in every TIMED render, below 800 ms as at or above it, the
\* written values satisfy ramp_step_ms * 8 * 2 + pause_hi = flashOnMs
Orig_C15 ==
    TimedRendered
    => \E step \in StepValues, hi \in HiValues :
          /\ ValueAt(rOut, RAMP_STEP_MS) = Decimal(step)
          /\ ValueAt(rOut, PAUSE_HI) = Decimal(hi)
          /\ RampFills(step, hi, rState.flashOnMs)

\* C15: a TIMED render with flashOnMs >= 800 writes values with
\* ramp_step_ms * 8 * 2 + pause_hi = flashOnMs; with flashOnMs < 800 and the
\* step recomputed it writes pause_hi = 0 and ramp_step_ms * 8 * 2 =
\* flashOnMs minus the remainder of flashOnMs / 16, which is flashOnMs only
\* for a multiple of 16; where flashOnMs - 800 overflows a build may instead
\* keep the step of 50 and write the wrapped difference
Thm_C15 ==
    TimedRendered
    => \E step \in StepValues, hi \in HiValues :
          /\ ValueAt(rOut, RAMP_STEP_MS) = Decimal(step)
          /\ ValueAt(rOut, PAUSE_HI) = Decimal(hi)
          /\ \/ /\ rState.flashOnMs >= 800
                /\ RampFills(step, hi, rState.flashOnMs)
             \/ /\ rState.flashOnMs < 800
                /\ hi = 0
                /\ step * 16 = rState.flashOnMs - Rem16(rState.flashOnMs)
             \/ /\ SubOverflows(rState.flashOnMs, 800)
                /\ step = 50
                /\ hi = SubWrap(rState.flashOnMs, 800)

\* a 100 ms flash was rendered with a 6 ms step and no hold: 96 ms in all
Wit_C15 ==
    /\ TimedRendered
    /\ rState.flashOnMs = 100
    /\ ValueAt(rOut, RAMP_STEP_MS) = "6"
    /\ ValueAt(rOut, PAUSE_HI) = "0"

\* the thread whose call for a class has stored its state and not returned
Storing(type) ==
    {t \in Threads : pc[t] \in {"check", "render"} /\ static_cast_LightType(id[t]) = type}

\* C16: the table always has its five entries with their classes and
\* handlers in the constructed order; the state stored for a class is, field
\* for field, the state passed by the call for it that is past its update
\* and has not returned, else the one passed by the last call for it that
\* returned ok, else the default; so a call changes no other class's state
Thm_C16 ==
    /\ Len(backends) = Len(InitialBackends)
    /\ \A i \in 1 .. Len(InitialBackends) :
          /\ backends[i].type = InitialBackends[i].type
          /\ backends[i].handler = InitialBackends[i].handler
          /\ \A t \in Storing(backends[i].type) : backends[i].state = argState[t]
          /\ Storing(backends[i].type) = {}
             => backends[i].state = latest[backends[i].type]

\* ATTENTION was set to a blinking red, which was rendered, and then to off:
\* nothing of the first state is left in the table, and the other classes
\* still hold the default
Wit_C16 ==
    /\ \A t \in Threads : pc[t] = "idle"
    /\ ncalls = 2
    /\ hw[WHITE_LED \o PAUSE_LO] = "2000"
    /\ backends[1].type = ATTENTION
    /\ backends[1].state = StateOff
    /\ latest[ATTENTION] = StateOff
    /\ \A i \in 2 .. Len(backends) : backends[i].state = DefaultState

\* the attribute files of the white LED
WhitePaths ==
    {WHITE_LED \o a : a \in {BLINK, BRIGHTNESS, DUTY_PCTS, PAUSE_HI, PAUSE_LO,
                             RAMP_STEP_MS, START_IDX}}

\* C17: the set() calls of a call go to the files of its class's handler
\* only.  A BACKLIGHT call makes one, to the lcd-backlight brightness, of a
\* value in 0 .. 4095 computed from the state it passed; a BUTTONS call
\* makes two, to button-backlight and button-backlight1 brightness, of one
\* value in 0 .. 255 computed from the state it passed; a call for
\* ATTENTION, NOTIFICATIONS or BATTERY writes white-LED files only; a call
\* for a class the table does not name writes nothing
Thm_C17 ==
    call.thread # NoThread
    => LET lcd == getScaledBrightness(call.state, MAX_LCD_BRIGHTNESS)
           led == getScaledBrightness(call.state, MAX_LED_BRIGHTNESS)
       IN /\ call.type = BACKLIGHT
             => /\ Len(trace) <= 1
                /\ call.status = "ok" => Len(trace) = 1
                /\ lcd \in 0 .. 4095
                /\ \A i \in 1 .. Len(trace) :
                      /\ trace[i].path = LCD_LED \o BRIGHTNESS
                      /\ trace[i].value = Decimal(lcd)
          /\ call.type = BUTTONS
             => /\ Len(trace) <= 2
                /\ call.status = "ok" => Len(trace) = 2
                /\ led \in 0 .. 255
                /\ \A i \in 1 .. Len(trace) :
                      /\ trace[i].path = <<BUTTON_LED, BUTTON1_LED>>[i] \o BRIGHTNESS
                      /\ trace[i].value = Decimal(led)
          /\ call.type \in WhiteClasses
             => \A i \in 1 .. Len(trace) : trace[i].path \in WhitePaths
          /\ call.type \notin Supported => trace = << >>

\* a BACKLIGHT call for full white returned after its one write of 4095,
\* while the white LED's classes hold a lit state
Wit_C17 ==
    /\ ReturnedOk
    /\ call.type = BACKLIGHT
    /\ Attempts(trace) = << <<LCD_LED \o BRIGHTNESS, "4095">> >>
    /\ \E c \in WhiteClasses : Lit(StoredIn(backends, c))

\* the threads waiting for the mutex
Waiting == {t \in Threads : pc[t] = "lock"}

\* C18 as stated: a thread inside setLightState eventually is outside it and
\* does not hold the mutex, whichever way the call returns; and a thread
\* waiting for the mutex eventually holds it
Orig_C18 ==
    \A t \in Threads :
        /\ (pc[t] # "idle") ~> (pc[t] = "idle" /\ globalLock # t)
        /\ (pc[t] = "lock") ~> (globalLock = t)

\* C18: a thread that holds the mutex eventually has returned and does not
\* hold it, whichever way the call returns; so a held mutex is eventually
\* free, and a free mutex that threads wait for is eventually taken.  Which
\* of the waiting threads takes it is not decided by the code
Thm_C18 ==
    /\ \A t \in Threads : InCritical(t) ~> (pc[t] = "idle" /\ globalLock # t)
    /\ (globalLock # NoThread) ~> (globalLock = NoThread)
    /\ (Waiting # {} /\ globalLock = NoThread) ~> (globalLock # NoThread)

\* a thread whose call has returned is at the lock_guard again, beside a
\* thread that waits there, and the mutex is free for either
Wit_C18 ==
    \E t \in Threads, u \in Threads :
        /\ t # u
        /\ call.thread = t
        /\ call.status # "none"
        /\ pc[t] = "lock"
        /\ pc[u] = "lock"
        /\ globalLock = NoThread

\* C19: a thread outside setLightState can run getLights to its end in
\* every state, whoever holds the mutex; and the list getLights returned is
\* the list it was handed followed by the same five entries, whatever states
\* are stored and whatever calls are in progress
Thm_C19 ==
    /\ \A t \in Threads : pc[t] = "idle" => ENABLED GetLights(t, << >>)
    /\ \/ lights = << >> /\ lightsIn = << >>
       \/ lights = lightsIn \o FiveLights

\* another thread holds the mutex in the middle of its set() calls, with lit
\* states stored, and getLights run from here returns the five entries
Wit_C19 ==
    \E t \in Threads :
        /\ pc[t] = "idle"
        /\ globalLock \notin {NoThread, t}
        /\ pc[globalLock] = "render"
        /\ trace # << >>
        /\ todo[globalLock] # << >>
        /\ \E i \in 1 .. Len(backends) : Lit(backends[i].state)
        /\ lights = FiveLights
        /\ ENABLED (GetLights(t, << >>) /\ lights' = FiveLights /\ globalLock' = globalLock)

\* the classes of the white LED that are lit in the table, by position
LitWhite == LitPositions(backends, ATTENTION)

\* C20: on a device where every file opens, whenever no thread is inside
\* the locked part of setLightState, the blink file holds 1 exactly when
\* handleNotification has run and its last run was for a TIMED state; and
\* the state of that run is the stored state of the first lit class among
\* ATTENTION, NOTIFICATIONS, BATTERY, or with none lit the state passed by
\* the last call for one of the three
Thm_C20 ==
    (missing = {} /\ globalLock = NoThread)
    => /\ hw[WHITE_LED \o BLINK] = "1"
          <=> (white.done /\ white.rendered.flashMode = FLASH_TIMED)
       /\ white.done
          => white.rendered =
               IF LitWhite # {}
               THEN StoredIn(backends, PriorityOrder[MinOf(LitWhite)])
               ELSE white.arg

\* ATTENTION blinks and a later call set NOTIFICATIONS to a steady white:
\* the LED still blinks, showing the state stored for ATTENTION and not the
\* state last passed
Wit_C20 ==
    /\ missing = {}
    /\ \A t \in Threads : pc[t] = "idle"
    /\ globalLock = NoThread
    /\ hw[WHITE_LED \o BLINK] = "1"
    /\ white.done
    /\ white.arg = StateWhite
    /\ white.rendered = StateRedBlink
    /\ StoredIn(backends, ATTENTION) = StateRedBlink
    /\ StoredIn(backends, NOTIFICATIONS) = StateWhite

====
